---- MODULE Spec2Model ----
(***************************************************************************)
(* A model of app.py, the Streamlit page that sends an uploaded HTML file  *)
(* with an instruction to Gemini and offers the reply as a PDF or Word     *)
(* download.  One behaviour is a series of script runs (Streamlit re-runs  *)
(* the script top to bottom on every interaction); each action is one      *)
(* statement, or one straight-line group of statements, of the script.     *)
(* Text is modelled by TLA+ strings; uploaded bytes by sequences of byte   *)
(* values; the file system by a map from temporary path to file state.     *)
(***************************************************************************)
EXTENDS Integers, Sequences, FiniteSets, TLC

VARIABLES
    output_format,      \* st.radio value (line 69)
    mode,               \* st.selectbox value (line 74)
    typed,              \* what the text_area holds (line 81)
    uploaded_file,      \* st.file_uploader value (line 84)
    pressed,            \* st.button value of this run (line 94)
    custom_instruction, \* line 79/81
    string_data,        \* line 88
    base_prompt,        \* lines 98-106
    full_prompt,        \* lines 108-113
    processed_text,     \* line 121
    file_name_root,     \* line 130
    pdf_data,           \* line 133
    docx_data,          \* line 143
    doc,                \* convert_to_word: the Document being built
    tmp_path,           \* convert_to_word: tmp.name, 0 while unset
    docx_bytes,         \* convert_to_word: f.read()
    handle,             \* convert_to_word: the open file object and its path
    exc,                \* the exception being handled, and where it was raised
    disk,               \* temporary directory: path -> [exists, data]
    fslog,              \* file operations of this run, in order
    ui,                 \* elements rendered by this run, in order
    downloads,          \* st.download_button elements rendered by this run
    generate_calls,     \* calls of client.models.generate_content this run
    pdf_calls,          \* calls of convert_to_pdf this run
    word_calls,         \* calls of convert_to_word this run
    unhandled,          \* exception that left the script run, "" if none
    pc,                 \* position in the script
    runs                \* script runs started so far

vars == << output_format, mode, typed, uploaded_file, pressed, custom_instruction,
           string_data, base_prompt, full_prompt, processed_text, file_name_root,
           pdf_data, docx_data, doc, tmp_path, docx_bytes, handle, exc, disk,
           fslog, ui, downloads, generate_calls, pdf_calls, word_calls,
           unhandled, pc, runs >>

-----------------------------------------------------------------------------
(* Bounds of the model *)

\* script runs (interactions) in one behaviour; also the number of
\* temporary-file names available, so that a fresh name always exists
MaxRuns == 2

\* length of an uploaded file in bytes
MaxBytes == 2

-----------------------------------------------------------------------------
(* Program constants *)

PreviewLen == 1000

PDF == "PDF"
WORD == "Word Document (.docx)"
Formats == {PDF, WORD}

SUMMARIZE == "Summarize Content"
CLEAN == "Clean & Format"
EXTRACT == "Extract Key Data"
CUSTOM == "Custom Instruction"
Modes == {SUMMARIZE, CLEAN, EXTRACT, CUSTOM}

TextAreaDefault == "E.g., Translate to Spanish..."

SummarizeInstruction == "Summarize the following content into a professional report."
CleanInstruction == "Clean up this content and format it nicely with headers and bullet points."
ExtractInstruction == "Extract key metrics, dates, and names from this content."

HtmlDirective ==
    "IMPORTANT: Output the result as clean HTML (using tags like <h3>, <p>, <ul>) "
    \o "so it can be converted to a document. Do not use Markdown blocks."

ContentHeader == "\n\nCONTENT:\n"

PdfMime == "application/pdf"
DocxMime == "application/vnd.openxmlformats-officedocument.wordprocessingml.document"

HeadingText == "Gemini Processed Report"

-----------------------------------------------------------------------------
(* Inputs the environment can supply *)

\* text the user can leave in the custom-prompt box
TypedTexts == {TextAreaDefault, "Translate to Spanish", ""}

\* byte values of uploaded files: '<' and the two bytes of U+00E9
ByteAlphabet == {60, 195, 169}

RECURSIVE SeqsUpTo(_, _)
SeqsUpTo(S, n) ==
    IF n = 0 THEN {<< >>}
    ELSE LET shorter == SeqsUpTo(S, n - 1)
         IN  shorter \cup {Append(s, x) : s \in shorter, x \in S}

FileValues == SeqsUpTo(ByteAlphabet, MaxBytes)

\* file names a user may try to upload
CandidateNames ==
    {"report.html", "archive.tar.html", ".html", "x..htm", "notes.txt"}

\* replies of the model
Replies == {"<h3>Title</h3><p>Body</p>", ""}

InferenceErrors == {"503 UNAVAILABLE"}
PdfErrors == {"No wkhtmltopdf executable found", "wkhtmltopdf reported an error"}
OsErrors == {"Permission denied"}

TmpNames == 1..MaxRuns

-----------------------------------------------------------------------------
(* Pure helpers *)

Min(a, b) == IF a < b THEN a ELSE b

EndsWith(s, suffix) ==
    /\ Len(s) >= Len(suffix)
    /\ SubSeq(s, Len(s) - Len(suffix) + 1, Len(s)) = suffix

\* st.file_uploader(type=["html", "htm"]) only lets these names through
AcceptedType(name) == EndsWith(name, ".html") \/ EndsWith(name, ".htm")

Names == {n \in CandidateNames : AcceptedType(n)}

NoFile == [present |-> FALSE, name |-> "", value |-> << >>]

Uploads == {NoFile} \cup
           {[present |-> TRUE, name |-> n, value |-> v] : n \in Names, v \in FileValues}

\* bytes.decode("utf-8"), for one- and two-byte sequences; no byte of
\* ByteAlphabet starts a longer one
IsContinuation(b) == b >= 128 /\ b <= 191
IsAscii(b) == b < 128
IsLead2(b) == b >= 194 /\ b <= 223

RECURSIVE Utf8Valid(_)
Utf8Valid(b) ==
    IF b = << >> THEN TRUE
    ELSE IF IsAscii(b[1]) THEN Utf8Valid(Tail(b))
    ELSE IF IsLead2(b[1]) /\ Len(b) >= 2 /\ IsContinuation(b[2])
         THEN Utf8Valid(Tail(Tail(b)))
    ELSE FALSE

\* the character of a code point, for the code points ByteAlphabet can encode;
\* strings here are ASCII, so U+00E9 is written as its escape
Chr(cp) ==
    CASE cp = 60 -> "<"
      [] cp = 233 -> "\\u00e9"

RECURSIVE Utf8Decode(_)
Utf8Decode(b) ==
    IF b = << >> THEN ""
    ELSE IF IsAscii(b[1]) THEN Chr(b[1]) \o Utf8Decode(Tail(b))
    ELSE Chr((b[1] - 192) * 64 + (b[2] - 128)) \o Utf8Decode(Tail(Tail(b)))

\* string_data[:1000] + "..."
Preview(s) == SubSeq(s, 1, Min(Len(s), PreviewLen)) \o "..."

\* BasePrompt, had the else branch been left out (base_prompt stays "")
BasePromptNoElse(m, custom) ==
    IF m = SUMMARIZE THEN SummarizeInstruction
    ELSE IF m = CLEAN THEN CleanInstruction
    ELSE IF m = EXTRACT THEN ExtractInstruction
    ELSE ""

\* the if/elif chain of lines 98-106
BasePrompt(m, custom) ==
    IF m = SUMMARIZE THEN SummarizeInstruction
    ELSE IF m = CLEAN THEN CleanInstruction
    ELSE IF m = EXTRACT THEN ExtractInstruction
    ELSE custom

\* FullPrompt, had it appended the first character of the text only
FullPromptTruncated(base, data) ==
    base \o "\n" \o HtmlDirective \o ContentHeader \o SubSeq(data, 1, Min(Len(data), 1))

\* the f-string of lines 108-113
FullPrompt(base, data) ==
    base \o "\n" \o HtmlDirective \o ContentHeader \o data

\* str.rfind(ch): the last index of ch in s, 0 when there is none
RFind(s, ch) ==
    LET hits == {i \in 1..Len(s) : SubSeq(s, i, i) = ch}
    IN  IF hits = {} THEN 0 ELSE CHOOSE i \in hits : \A j \in hits : j <= i

\* SplitextRoot, had the name been cut at its last dot whatever comes before
SplitextRootAtLastDot(p) ==
    IF RFind(p, ".") = 0 THEN p ELSE SubSeq(p, 1, RFind(p, ".") - 1)

\* os.path.splitext(p)[0]: the extension starts at the last dot after the
\* last separator, unless only dots come before it in the file name
SplitextRoot(p) ==
    LET sepIndex == RFind(p, "/")
        dotIndex == RFind(p, ".")
        named == \E k \in (sepIndex + 1)..(dotIndex - 1) : SubSeq(p, k, k) # "."
    IN  IF dotIndex > sepIndex /\ named THEN SubSeq(p, 1, dotIndex - 1) ELSE p

PdfFileName(root) == root \o "_processed.pdf"
DocxFileName(root) == root \o "_processed.docx"

\* the envelope of lines 27-32
HtmlWrapper(content) ==
    "\n        <html>\n          <head><meta charset=\"UTF-8\"></head>\n          <body>"
    \o content \o "</body>\n        </html>\n        "

\* what wkhtmltopdf writes for a page: a PDF of that page, or nothing
Rendered(html) == {"%PDF-1.4 " \o html, ""}

\* values a serializer returns: None, or bytes
None == [isNone |-> TRUE, bytes |-> ""]
Bytes(b) == [isNone |-> FALSE, bytes |-> b]
Truthy(v) == ~v.isNone /\ v.bytes # ""

\* text without its tags
RECURSIVE StripTags(_, _)
StripTags(text, inTag) ==
    IF text = "" THEN ""
    ELSE LET c == SubSeq(text, 1, 1)
             rest == SubSeq(text, 2, Len(text))
         IN  IF c = "<" THEN StripTags(rest, TRUE)
             ELSE IF c = ">" /\ inTag THEN StripTags(rest, FALSE)
             ELSE IF inTag THEN StripTags(rest, TRUE)
             ELSE c \o StripTags(rest, FALSE)

\* AddParagraph, had the reply been parsed as HTML
AddParagraphParsed(d, text) == Append(d, [style |-> "Normal", text |-> StripTags(text, FALSE)])

\* doc.add_heading(text, 0) and doc.add_paragraph(text) append one block each
AddHeading(d, text) == Append(d, [style |-> "Title", text |-> text])

AddParagraph(d, text) == Append(d, [style |-> "Normal", text |-> text])

\* the bytes doc.save writes
RECURSIVE DocxSerialize(_)
DocxSerialize(d) ==
    IF d = << >> THEN "PK"
    ELSE DocxSerialize(SubSeq(d, 1, Len(d) - 1))
         \o "<w:p " \o d[Len(d)].style \o ">" \o d[Len(d)].text \o "</w:p>"

Absent == [exists |-> FALSE, data |-> ""]
File(data) == [exists |-> TRUE, data |-> data]

NoHandle == [obj |-> "none", name |-> 0]
Handle(obj, name) == [obj |-> obj, name |-> name]

FsOp(op, path) == [op |-> op, path |-> path]

Element(kind, text) == [kind |-> kind, text |-> text]
NoExc == [msg |-> "", at |-> ""]
Raised(msg, at) == [msg |-> msg, at |-> at]

-----------------------------------------------------------------------------
(* The state before the first interaction *)

Init ==
    /\ output_format = PDF
    /\ mode = SUMMARIZE
    /\ typed = TextAreaDefault
    /\ uploaded_file = NoFile
    /\ pressed = FALSE
    /\ custom_instruction = ""
    /\ string_data = ""
    /\ base_prompt = ""
    /\ full_prompt = ""
    /\ processed_text = ""
    /\ file_name_root = ""
    /\ pdf_data = None
    /\ docx_data = None
    /\ doc = << >>
    /\ tmp_path = 0
    /\ docx_bytes = ""
    /\ handle = NoHandle
    /\ exc = NoExc
    /\ fslog = << >>
    /\ ui = << >>
    /\ downloads = << >>
    /\ generate_calls = 0
    /\ pdf_calls = 0
    /\ word_calls = 0
    /\ unhandled = ""
    /\ disk = [p \in TmpNames |-> Absent]
    /\ pc = "idle"
    /\ runs = 0

widgets == << output_format, mode, typed, uploaded_file, pressed >>
prompt_locals == << custom_instruction, string_data, base_prompt, full_prompt >>
reply_locals == << processed_text, file_name_root >>
results == << pdf_data, docx_data >>
word_locals == << doc, tmp_path, docx_bytes, handle >>
counters == << generate_calls, pdf_calls, word_calls >>

-----------------------------------------------------------------------------
(* The script, lines 66-94 *)

\* An interaction: the user leaves the widgets in some state and Streamlit
\* runs the script from the top.  The custom-prompt box and the process button
\* exist only in custom mode and under an upload.
Rerun ==
    /\ pc = "idle"
    /\ runs < MaxRuns
    /\ runs' = runs + 1
    /\ output_format' \in Formats
    /\ mode' \in Modes
    /\ typed' \in IF mode' = CUSTOM THEN TypedTexts ELSE {TextAreaDefault}
    /\ uploaded_file' \in Uploads
    /\ pressed' \in IF uploaded_file'.present THEN BOOLEAN ELSE {FALSE}
    /\ pc' = "sidebar"
    /\ UNCHANGED << prompt_locals, reply_locals, results, word_locals, exc, disk,
                    fslog, ui, downloads, counters, unhandled >>

\* lines 79-81
Sidebar ==
    /\ pc = "sidebar"
    /\ custom_instruction' = IF mode = CUSTOM THEN typed ELSE ""
    /\ pc' = "upload"
    /\ UNCHANGED << widgets, string_data, base_prompt, full_prompt, reply_locals,
                    results, word_locals, exc, disk, fslog, ui, downloads,
                    counters, unhandled, runs >>

\* line 86, nothing uploaded: the script ends
NoUpload ==
    /\ pc = "upload"
    /\ ~uploaded_file.present
    /\ pc' = "done"
    /\ UNCHANGED << widgets, prompt_locals, reply_locals, results, word_locals,
                    exc, disk, fslog, ui, downloads, counters, unhandled, runs >>

\* lines 88-91, the bytes are UTF-8
DecodeOk ==
    /\ pc = "upload"
    /\ uploaded_file.present
    /\ Utf8Valid(uploaded_file.value)
    /\ string_data' = Utf8Decode(uploaded_file.value)
    /\ ui' = Append(ui, Element("code", Preview(string_data')))
    /\ pc' = "button"
    /\ UNCHANGED << widgets, custom_instruction, base_prompt, full_prompt,
                    reply_locals, results, word_locals, exc, disk, fslog,
                    downloads, counters, unhandled, runs >>

\* DecodeRaise, had the decode been inside a try block
DecodeRaiseCaught ==
    /\ pc = "upload"
    /\ uploaded_file.present
    /\ ~Utf8Valid(uploaded_file.value)
    /\ exc' = Raised("invalid start byte", "decode")
    /\ ui' = Append(ui, Element("error", "An error occurred: invalid start byte"))
    /\ pc' = "done"
    /\ UNCHANGED << widgets, prompt_locals, reply_locals, results, word_locals,
                    disk, fslog, downloads, counters, unhandled, runs >>

\* line 88, the bytes are not UTF-8: decode raises outside every try block
DecodeRaise ==
    /\ pc = "upload"
    /\ uploaded_file.present
    /\ ~Utf8Valid(uploaded_file.value)
    /\ unhandled' = "UnicodeDecodeError"
    /\ pc' = "done"
    /\ UNCHANGED << widgets, prompt_locals, reply_locals, results, word_locals,
                    exc, disk, fslog, ui, downloads, counters, runs >>

\* line 94, the button was not pressed in this run
NotPressed ==
    /\ pc = "button"
    /\ ~pressed
    /\ pc' = "done"
    /\ UNCHANGED << widgets, prompt_locals, reply_locals, results, word_locals,
                    exc, disk, fslog, ui, downloads, counters, unhandled, runs >>

\* lines 94-113
BuildPrompt ==
    /\ pc = "button"
    /\ pressed
    /\ base_prompt' = BasePrompt(mode, custom_instruction)
    /\ full_prompt' = FullPrompt(base_prompt', string_data)
    /\ pc' = "infer"
    /\ UNCHANGED << widgets, custom_instruction, string_data, reply_locals,
                    results, word_locals, exc, disk, fslog, ui, downloads,
                    counters, unhandled, runs >>

-----------------------------------------------------------------------------
(* The guarded block, lines 115-153 *)

\* lines 117-130: the call returns a reply
GenerateOk ==
    /\ pc = "infer"
    /\ generate_calls' = generate_calls + 1
    /\ \E reply \in Replies :
        /\ processed_text' = reply
        /\ ui' = ui \o << Element("success", "Processing Complete!"),
                          Element("subheader", "Result Preview"),
                          Element("markdown", reply) >>
    /\ file_name_root' = SplitextRoot(uploaded_file.name)
    /\ pc' = "dispatch"
    /\ UNCHANGED << widgets, prompt_locals, results, word_locals, exc, disk,
                    fslog, downloads, pdf_calls, word_calls, unhandled, runs >>

\* GenerateRaise, had the try block ended after the call: the error is shown
\* and the script goes on with an empty reply
GenerateRaiseGoesOn ==
    /\ pc = "infer"
    /\ generate_calls' = generate_calls + 1
    /\ \E e \in InferenceErrors :
        /\ exc' = Raised(e, "generate_content")
        /\ ui' = Append(ui, Element("error", "An error occurred: " \o e))
    /\ file_name_root' = SplitextRoot(uploaded_file.name)
    /\ pc' = "dispatch"
    /\ UNCHANGED << widgets, prompt_locals, processed_text, results, word_locals,
                    disk, fslog, downloads, pdf_calls, word_calls, unhandled, runs >>

\* lines 117-120 and 152-153: the call raises
GenerateRaise ==
    /\ pc = "infer"
    /\ generate_calls' = generate_calls + 1
    /\ \E e \in InferenceErrors :
        /\ exc' = Raised(e, "generate_content")
        /\ ui' = Append(ui, Element("error", "An error occurred: " \o e))
    /\ pc' = "done"
    /\ UNCHANGED << widgets, prompt_locals, reply_locals, results, word_locals,
                    disk, fslog, downloads, pdf_calls, word_calls, unhandled, runs >>

\* lines 132-133, 142-143: the call of the selected serializer
Dispatch ==
    /\ pc = "dispatch"
    /\ IF output_format = PDF
       THEN /\ pdf_calls' = pdf_calls + 1
            /\ pc' = "pdf"
            /\ UNCHANGED word_calls
       ELSE IF output_format = WORD
       THEN /\ word_calls' = word_calls + 1
            /\ pc' = "w_build"
            /\ UNCHANGED pdf_calls
       ELSE /\ pc' = "done"
            /\ UNCHANGED << pdf_calls, word_calls >>
    /\ UNCHANGED << widgets, prompt_locals, reply_locals, results, word_locals,
                    exc, disk, fslog, ui, downloads, generate_calls, unhandled, runs >>

-----------------------------------------------------------------------------
(* convert_to_pdf, lines 23-37, and its caller, lines 133-140 *)

\* lines 26-34: pdfkit returns what the renderer wrote
ConvertToPdfReturn ==
    /\ pc = "pdf"
    /\ \E b \in Rendered(HtmlWrapper(processed_text)) : pdf_data' = Bytes(b)
    /\ pc' = "pdf_guard"
    /\ UNCHANGED << widgets, prompt_locals, reply_locals, docx_data, word_locals,
                    exc, disk, fslog, ui, downloads, counters, unhandled, runs >>

\* ConvertToPdfRaise, had convert_to_pdf no try block: the handler of line 152
\* takes the exception
ConvertToPdfRaiseEscapes ==
    /\ pc = "pdf"
    /\ \E e \in PdfErrors :
        /\ exc' = Raised(e, "pdfkit")
        /\ ui' = Append(ui, Element("error", "An error occurred: " \o e))
    /\ pc' = "done"
    /\ UNCHANGED << widgets, prompt_locals, reply_locals, results, word_locals,
                    disk, fslog, downloads, counters, unhandled, runs >>

\* lines 26-37: pdfkit.configuration or pdfkit.from_string raises
ConvertToPdfRaise ==
    /\ pc = "pdf"
    /\ \E e \in PdfErrors :
        /\ exc' = Raised(e, "pdfkit")
        /\ ui' = Append(ui, Element("error", "PDF Error: " \o e))
    /\ pdf_data' = None
    /\ pc' = "pdf_guard"
    /\ UNCHANGED << widgets, prompt_locals, reply_locals, docx_data, word_locals,
                    disk, fslog, downloads, counters, unhandled, runs >>

\* PdfDownload, had the guard been "is not None"
PdfDownloadNotNone ==
    /\ pc = "pdf_guard"
    /\ downloads' =
         IF ~pdf_data.isNone
         THEN Append(downloads, [label |-> "Download PDF",
                                 data |-> pdf_data.bytes,
                                 file_name |-> PdfFileName(file_name_root),
                                 mime |-> PdfMime])
         ELSE downloads
    /\ pc' = "done"
    /\ UNCHANGED << widgets, prompt_locals, reply_locals, results, word_locals,
                    exc, disk, fslog, ui, counters, unhandled, runs >>

\* lines 134-140
PdfDownload ==
    /\ pc = "pdf_guard"
    /\ downloads' =
         IF Truthy(pdf_data)
         THEN Append(downloads, [label |-> "Download PDF",
                                 data |-> pdf_data.bytes,
                                 file_name |-> PdfFileName(file_name_root),
                                 mime |-> PdfMime])
         ELSE downloads
    /\ pc' = "done"
    /\ UNCHANGED << widgets, prompt_locals, reply_locals, results, word_locals,
                    exc, disk, fslog, ui, counters, unhandled, runs >>

-----------------------------------------------------------------------------
(* convert_to_word, lines 39-58, and its caller, lines 143-150 *)

word_frame == << widgets, prompt_locals, reply_locals, results, downloads,
                 counters, unhandled, runs >>

\* lines 42-44
WordBuild ==
    /\ pc = "w_build"
    /\ doc' = AddParagraph(AddHeading(<< >>, HeadingText), processed_text)
    /\ pc' = "w_tmp"
    /\ UNCHANGED << word_frame, tmp_path, docx_bytes, handle, exc, disk, fslog, ui >>

\* lines 42-44: python-docx raises while the document is built
WordBuildRaise ==
    /\ pc = "w_build"
    /\ exc' = Raised("document error", "build")
    /\ pc' = "w_except"
    /\ UNCHANGED << word_frame, word_locals, disk, fslog, ui >>

\* line 47: a new, empty file under a name not in use; delete=False
WordTmpCreate ==
    /\ pc = "w_tmp"
    /\ \E p \in TmpNames :
        /\ ~disk[p].exists
        /\ disk' = [disk EXCEPT ![p] = File("")]
        /\ handle' = Handle("tmp", p)
        /\ fslog' = Append(fslog, FsOp("create", p))
    /\ pc' = "w_save"
    /\ UNCHANGED << word_frame, doc, tmp_path, docx_bytes, exc, ui >>

\* line 47: the file cannot be created
WordTmpRaise ==
    /\ pc = "w_tmp"
    /\ \E e \in OsErrors : exc' = Raised(e, "create")
    /\ pc' = "w_except"
    /\ UNCHANGED << word_frame, word_locals, disk, fslog, ui >>

\* lines 48-49
WordSave ==
    /\ pc = "w_save"
    /\ disk' = [disk EXCEPT ![handle.name] = File(DocxSerialize(doc))]
    /\ fslog' = Append(fslog, FsOp("write", handle.name))
    /\ tmp_path' = handle.name
    /\ pc' = "w_close"
    /\ UNCHANGED << word_frame, doc, docx_bytes, handle, exc, ui >>

\* line 48: doc.save raises; leaving the with block closes tmp
WordSaveRaise ==
    /\ pc = "w_save"
    /\ \E e \in OsErrors : exc' = Raised(e, "save")
    /\ fslog' = Append(fslog, FsOp("close", handle.name))
    /\ handle' = NoHandle
    /\ pc' = "w_except"
    /\ UNCHANGED << word_frame, doc, tmp_path, docx_bytes, disk, ui >>

\* end of the with block of line 47
WordClose ==
    /\ pc = "w_close"
    /\ fslog' = Append(fslog, FsOp("close", handle.name))
    /\ handle' = NoHandle
    /\ pc' = "w_open"
    /\ UNCHANGED << word_frame, doc, tmp_path, docx_bytes, exc, disk, ui >>

\* line 51
WordOpen ==
    /\ pc = "w_open"
    /\ disk[tmp_path].exists
    /\ handle' = Handle("f", tmp_path)
    /\ fslog' = Append(fslog, FsOp("open_rb", tmp_path))
    /\ pc' = "w_read"
    /\ UNCHANGED << word_frame, doc, tmp_path, docx_bytes, exc, disk, ui >>

\* line 51: open raises
WordOpenRaise ==
    /\ pc = "w_open"
    /\ \E e \in OsErrors : exc' = Raised(e, "open")
    /\ pc' = "w_except"
    /\ UNCHANGED << word_frame, word_locals, disk, fslog, ui >>

\* line 52, and the end of the with block of line 51
WordRead ==
    /\ pc = "w_read"
    /\ docx_bytes' = disk[handle.name].data
    /\ fslog' = fslog \o << FsOp("read", handle.name), FsOp("close", handle.name) >>
    /\ handle' = NoHandle
    /\ pc' = "w_unlink"
    /\ UNCHANGED << word_frame, doc, tmp_path, exc, disk, ui >>

\* line 52: read raises; leaving the with block closes f
WordReadRaise ==
    /\ pc = "w_read"
    /\ \E e \in OsErrors : exc' = Raised(e, "read")
    /\ fslog' = Append(fslog, FsOp("close", handle.name))
    /\ handle' = NoHandle
    /\ pc' = "w_except"
    /\ UNCHANGED << word_frame, doc, tmp_path, docx_bytes, disk, ui >>

\* WordUnlink, had line 54 been left out
WordUnlinkMissing ==
    /\ pc = "w_unlink"
    /\ pc' = "w_return"
    /\ UNCHANGED << word_frame, word_locals, exc, disk, fslog, ui >>

\* line 54
WordUnlink ==
    /\ pc = "w_unlink"
    /\ disk' = [disk EXCEPT ![tmp_path] = Absent]
    /\ fslog' = Append(fslog, FsOp("unlink", tmp_path))
    /\ pc' = "w_return"
    /\ UNCHANGED << word_frame, word_locals, exc, ui >>

\* line 54: unlink raises
WordUnlinkRaise ==
    /\ pc = "w_unlink"
    /\ \E e \in OsErrors : exc' = Raised(e, "unlink")
    /\ pc' = "w_except"
    /\ UNCHANGED << word_frame, word_locals, disk, fslog, ui >>

\* line 55
WordReturn ==
    /\ pc = "w_return"
    /\ docx_data' = Bytes(docx_bytes)
    /\ pc' = "w_guard"
    /\ UNCHANGED << widgets, prompt_locals, reply_locals, pdf_data, word_locals,
                    exc, disk, fslog, ui, downloads, counters, unhandled, runs >>

\* WordExcept, had the handler removed the temporary file
WordExceptCleansUp ==
    /\ pc = "w_except"
    /\ ui' = Append(ui, Element("error", "Word Error: " \o exc.msg))
    /\ disk' = [p \in TmpNames |->
                  IF fslog # << >> /\ fslog[1].path = p THEN Absent ELSE disk[p]]
    /\ docx_data' = None
    /\ pc' = "w_guard"
    /\ UNCHANGED << widgets, prompt_locals, reply_locals, pdf_data, word_locals,
                    exc, fslog, downloads, counters, unhandled, runs >>

\* lines 56-58
WordExcept ==
    /\ pc = "w_except"
    /\ ui' = Append(ui, Element("error", "Word Error: " \o exc.msg))
    /\ docx_data' = None
    /\ pc' = "w_guard"
    /\ UNCHANGED << widgets, prompt_locals, reply_locals, pdf_data, word_locals,
                    exc, disk, fslog, downloads, counters, unhandled, runs >>

\* lines 144-150
WordDownload ==
    /\ pc = "w_guard"
    /\ downloads' =
         IF Truthy(docx_data)
         THEN Append(downloads, [label |-> "Download Word Doc",
                                 data |-> docx_data.bytes,
                                 file_name |-> DocxFileName(file_name_root),
                                 mime |-> DocxMime])
         ELSE downloads
    /\ pc' = "done"
    /\ UNCHANGED << widgets, prompt_locals, reply_locals, results, word_locals,
                    exc, disk, fslog, ui, counters, unhandled, runs >>

\* the script run is over: its names are gone, and the page it rendered is
\* what the next run replaces
EndRun ==
    /\ pc = "done"
    /\ pc' = "idle"
    /\ output_format' = PDF
    /\ mode' = SUMMARIZE
    /\ typed' = TextAreaDefault
    /\ uploaded_file' = NoFile
    /\ pressed' = FALSE
    /\ custom_instruction' = ""
    /\ string_data' = ""
    /\ base_prompt' = ""
    /\ full_prompt' = ""
    /\ processed_text' = ""
    /\ file_name_root' = ""
    /\ pdf_data' = None
    /\ docx_data' = None
    /\ doc' = << >>
    /\ tmp_path' = 0
    /\ docx_bytes' = ""
    /\ handle' = NoHandle
    /\ exc' = NoExc
    /\ fslog' = << >>
    /\ ui' = << >>
    /\ downloads' = << >>
    /\ generate_calls' = 0
    /\ pdf_calls' = 0
    /\ word_calls' = 0
    /\ unhandled' = ""
    /\ UNCHANGED << disk, runs >>

Next ==
    \/ Rerun \/ Sidebar \/ NoUpload \/ DecodeOk \/ DecodeRaise \/ NotPressed
    \/ BuildPrompt \/ GenerateOk \/ GenerateRaise \/ Dispatch
    \/ ConvertToPdfReturn \/ ConvertToPdfRaise \/ PdfDownload
    \/ WordBuild \/ WordBuildRaise \/ WordTmpCreate \/ WordTmpRaise
    \/ WordSave \/ WordSaveRaise \/ WordClose \/ WordOpen \/ WordOpenRaise
    \/ WordRead \/ WordReadRaise \/ WordUnlink \/ WordUnlinkRaise
    \/ WordReturn \/ WordExcept \/ WordDownload \/ EndRun

Spec == Init /\ [][Next]_vars

-----------------------------------------------------------------------------
(* Vocabulary of the properties *)

Shown(kind) == {i \in 1..Len(ui) : ui[i].kind = kind}

StartsWith(s, prefix) ==
    Len(s) >= Len(prefix) /\ SubSeq(s, 1, Len(prefix)) = prefix

SerializerSteps == {"pdfkit", "build", "create", "save", "open", "read", "unlink"}

\* the script is past the call of the serializer
SerializerReturned == pc \in {"pdf_guard", "w_guard", "done"}

InferenceFailed == exc.at = "generate_content"
SerializerFailed == exc.at \in SerializerSteps

FixedInstruction ==
    [m \in {SUMMARIZE, CLEAN, EXTRACT} |->
        CASE m = SUMMARIZE -> SummarizeInstruction
          [] m = CLEAN -> CleanInstruction
          [] m = EXTRACT -> ExtractInstruction]

\* the fixed text between the instruction and the document
DirectiveBlock == "\n" \o HtmlDirective \o ContentHeader

\* where block first occurs in s, 0 when it does not
FirstIndex(s, block) ==
    LET hits == {i \in 1..(Len(s) - Len(block) + 1) :
                    SubSeq(s, i, i + Len(block) - 1) = block}
    IN  IF hits = {} THEN 0 ELSE CHOOSE i \in hits : \A j \in hits : i <= j

\* everything before the directive
InstructionSegment(prompt) ==
    SubSeq(prompt, 1, FirstIndex(prompt, "\n" \o HtmlDirective) - 1)

\* a file name's final extension starts at its last dot, when something
\* other than a dot comes before that dot
IsExtensionDot(name, i) ==
    /\ SubSeq(name, i, i) = "."
    /\ \A j \in (i + 1)..Len(name) : SubSeq(name, j, j) # "."
    /\ \E j \in 1..(i - 1) : SubSeq(name, j, j) # "."

WithoutFinalExtension(name) ==
    IF \E i \in 1..Len(name) : IsExtensionDot(name, i)
    THEN SubSeq(name, 1, (CHOOSE i \in 1..Len(name) : IsExtensionDot(name, i)) - 1)
    ELSE name

\* bytes over ByteAlphabet are UTF-8 unless 0xC3 and 0xA9 fail to pair up
NotUtf8(b) ==
    \E i \in 1..Len(b) :
        \/ b[i] = 169 /\ (i = 1 \/ b[i - 1] # 195)
        \/ b[i] = 195 /\ (i = Len(b) \/ b[i + 1] # 169)

Ops(log) == [i \in 1..Len(log) |-> log[i].op]

\* the serializer of the selected format returned bytes that are not empty
SelectedSerializerGaveBytes ==
    \/ output_format = PDF /\ pdf_calls = 1 /\ Truthy(pdf_data)
    \/ output_format = WORD /\ word_calls = 1 /\ Truthy(docx_data)

-----------------------------------------------------------------------------
(* Properties *)

\* C1: when the inference call raises, the exception is caught, exactly one
\* inline error is shown and the run stops there: one call and no retry, no
\* success message, no result preview, no serializer call, no download.
InferenceFailureStopsRun ==
    InferenceFailed =>
        /\ pc = "done"
        /\ unhandled = ""
        /\ generate_calls = 1
        /\ Cardinality(Shown("error")) = 1
        /\ \A i \in Shown("error") : ui[i].text = "An error occurred: " \o exc.msg
        /\ Shown("success") = {} /\ Shown("markdown") = {} /\ Shown("subheader") = {}
        /\ pdf_calls = 0 /\ word_calls = 0
        /\ downloads = << >>

InferenceFailureSeen == InferenceFailed /\ pc = "done" /\ pressed

\* C2: when the inference call succeeded and the selected serializer failed,
\* the serializer itself showed one inline error and returned None, no
\* download is offered and no exception leaves the script run.
SerializerFailureContained ==
    (SerializerFailed /\ SerializerReturned) =>
        /\ unhandled = ""
        /\ Cardinality(Shown("error")) = 1
        /\ \A i \in Shown("error") :
              ui[i].text = (IF exc.at = "pdfkit" THEN "PDF Error: " ELSE "Word Error: ")
                           \o exc.msg
        /\ Shown("success") # {}
        /\ IF exc.at = "pdfkit" THEN pdf_data = None ELSE docx_data = None
        /\ downloads = << >>

PdfRenderFailureSeen == exc.at = "pdfkit" /\ pc = "done" /\ Shown("error") # {}

\* C3: when convert_to_word is about to return, or has returned, the document
\* bytes, its temporary file is gone, after being created, written, closed,
\* reopened for reading and deleted in that order.
WordSuccessLeavesNoFile ==
    (pc = "w_return" \/ (pc \in {"w_guard", "done"} /\ ~docx_data.isNone)) =>
        /\ tmp_path \in TmpNames
        /\ ~disk[tmp_path].exists
        /\ Ops(fslog) = << "create", "write", "close", "open_rb", "read", "close", "unlink" >>
        /\ \A i \in 1..Len(fslog) : fslog[i].path = tmp_path

WordSuccessSeen == pc = "w_guard" /\ ~docx_data.isNone /\ docx_data.bytes # ""

\* C4: in each of the three fixed modes the prompt is the mode's instruction,
\* then the fixed directive, then the decoded document text as it is, and
\* nothing of the custom-prompt box.
FixedModePromptExact ==
    (full_prompt # "" /\ mode \in DOMAIN FixedInstruction) =>
        LET instr == FixedInstruction[mode]
            text == Utf8Decode(uploaded_file.value)
            n == Len(full_prompt)
        IN  /\ StartsWith(full_prompt, instr)
            /\ SubSeq(full_prompt, Len(instr) + 1, n - Len(text)) = DirectiveBlock
            /\ SubSeq(full_prompt, n - Len(text) + 1, n) = text
            /\ n = Len(instr) + Len(DirectiveBlock) + Len(text)
            /\ custom_instruction = ""

FixedModePromptSeen ==
    full_prompt # "" /\ mode = EXTRACT /\ uploaded_file.value = << 60, 60 >>

DownloadNameFromUpload ==
    \A i \in 1..Len(downloads) :
        LET root == WithoutFinalExtension(uploaded_file.name)
        IN  IF output_format = PDF
            THEN /\ downloads[i].file_name = root \o "_processed" \o ".pdf"
                 /\ downloads[i].mime = "application/pdf"
            ELSE /\ downloads[i].file_name = root \o "_processed" \o ".docx"
                 /\ downloads[i].mime = DocxMime

DownloadNameSeen ==
    /\ downloads # << >>
    /\ uploaded_file.name = "report.html"
    /\ downloads[1].file_name = "report_processed.docx"

\* C7: the document convert_to_word builds is one heading followed by one
\* body paragraph, and the paragraph's text is the reply itself, tags and all.
WordDocIsHeadingAndReply ==
    doc # << >> =>
        /\ Len(doc) = 2
        /\ doc[1].style = "Title"
        /\ doc[2].style = "Normal"
        /\ doc[2].text = processed_text

WordDocSeen ==
    /\ Len(doc) = 2
    /\ doc[2].text = "<h3>Title</h3><p>Body</p>"

\* C8: when the uploaded bytes are not UTF-8, the decode failure leaves the
\* script run unhandled: no inline error is shown, no prompt is built, no
\* inference call is made and no download is offered.
BadUploadRaisesUnhandled ==
    (uploaded_file.present /\ NotUtf8(uploaded_file.value) /\ pc \notin {"sidebar", "upload"}) =>
        /\ pc = "done"
        /\ unhandled = "UnicodeDecodeError"
        /\ exc = NoExc
        /\ Shown("error") = {}
        /\ full_prompt = ""
        /\ generate_calls = 0
        /\ downloads = << >>

BadUploadSeen ==
    uploaded_file.value = << 195, 60 >> /\ pc = "done" /\ pressed

\* C9: when convert_to_word fails between the creation of the temporary file
\* and its deletion (the save, the reopen or the read), the delete step is
\* not reached: None is returned, one inline error is shown, and the file
\* stays on disk.
WordFailureLeaksFile ==
    (exc.at \in {"save", "open", "read"} /\ pc \in {"w_guard", "done"}) =>
        /\ docx_data = None
        /\ Cardinality(Shown("error")) = 1
        /\ \A i \in Shown("error") : StartsWith(ui[i].text, "Word Error: ")
        /\ fslog # << >>
        /\ fslog[1].op = "create"
        /\ disk[fslog[1].path].exists
        /\ \A i \in 1..Len(fslog) : fslog[i].op # "unlink"

WordLeakSeen ==
    /\ exc.at = "read"
    /\ pc = "done"
    /\ fslog # << >>
    /\ disk[fslog[1].path].exists

\* C10: a run ends with a download button exactly when a file was uploaded
\* and decoded, the button was pressed, the inference call succeeded and the
\* serializer of the selected format returned bytes that are not empty; there
\* is at most one button, it is for the selected format, and the serializer
\* of the other format is never called.
DownloadIffAllSucceeded ==
    /\ Len(downloads) <= 1
    /\ output_format = PDF => word_calls = 0
    /\ output_format = WORD => pdf_calls = 0
    /\ \A i \in 1..Len(downloads) :
          downloads[i].mime = (IF output_format = PDF THEN PdfMime ELSE DocxMime)
    /\ pc = "done" =>
          (downloads # << >> <=>
              /\ uploaded_file.present
              /\ ~NotUtf8(uploaded_file.value)
              /\ pressed
              /\ generate_calls = 1
              /\ ~InferenceFailed
              /\ SelectedSerializerGaveBytes)

DownloadOfferedSeen ==
    pc = "done" /\ downloads # << >> /\ output_format = PDF /\ pdf_calls = 1

====
